---------------------------- MODULE Spec2Model ----------------------------
(***************************************************************************)
(* Case-conversion utilities: toKebabCase (src/chain_prompt.js), camelCase *)
(* and dotCase (src/unnamed/part_001), to_snake_case                       *)
(* (src/unnamed/part_000).                                                 *)
(*                                                                         *)
(* A string is a sequence of UTF-16 code units (natural numbers), so that  *)
(* the character classes of the regular expressions are the code-unit      *)
(* ranges the source writes ([a-z] is 97..122) and case conversion is      *)
(* arithmetic on code units. A JavaScript value is a record                *)
(* [type, value]; the outcome of a call is a record [kind, value] with     *)
(* kind "return" or "throw".                                               *)
(***************************************************************************)
EXTENDS Integers, Sequences, FiniteSets

VARIABLES
    input,   \* the argument of the latest call (before any call: the drawn input)
    fn,      \* the function last called, "none" before the first call
    result,  \* the outcome of the latest call
    prev,    \* the outcome of the call before the latest one
    calls    \* number of calls made; call k+1 is applied to the result of call k

vars == <<input, fn, result, prev, calls>>

(***************************************************************************)
(* Bounds                                                                  *)
(***************************************************************************)
MaxLen == 3         \* longest drawn input over Alphabet
MaxLettersLen == 6  \* longest drawn input over LetterAlphabet
MaxWordsLen == 5    \* longest drawn input over WordAlphabet
MaxSpecialLen == 5  \* longest drawn input over SpecialAlphabet
MaxCalls == 2       \* a function is applied to its own result up to this depth

(***************************************************************************)
(* Code units                                                              *)
(***************************************************************************)
SP == 32            \* ' '
TAB == 9            \* '\t'
HYPHEN == 45        \* '-'
DOT == 46           \* '.'
UNDERSCORE == 95    \* '_'
AT == 64            \* '@'

LowerAZ == 97..122                      \* [a-z]
UpperAZ == 65..90                       \* [A-Z]
Digits == 48..57                        \* [0-9]
LettersAZ == LowerAZ \cup UpperAZ       \* [a-zA-Z]
CyrUpper == 1040..1071                  \* U+0410..U+042F
CyrLower == 1072..1103                  \* U+0430..U+044F

\* \s of a JavaScript regular expression, and what String.prototype.trim strips
Whitespace ==
    {9, 10, 11, 12, 13, 32, 160, 5760, 8232, 8233, 8239, 8287, 12288, 65279}
        \cup (8192..8202)

\* \s of Python's re on str, which is also str.isspace
PyWhitespace ==
    (9..13) \cup (28..32) \cup {133, 160, 5760, 8232, 8233, 8239, 8287, 12288}
        \cup (8192..8202)

\* \p{L} and \p{N}, on the Basic Latin and Cyrillic code units of the model
UnicodeLetters == LettersAZ \cup CyrUpper \cup CyrLower
UnicodeNumbers == Digits

(***************************************************************************)
(* String primitives                                                       *)
(***************************************************************************)
RECURSIVE Concat(_)
Concat(ss) == IF ss = <<>> THEN <<>> ELSE Head(ss) \o Concat(Tail(ss))

RECURSIVE Join(_, _)
Join(words, sep) ==
    IF words = <<>> THEN <<>>
    ELSE IF Len(words) = 1 THEN words[1]
    ELSE words[1] \o sep \o Join(Tail(words), sep)

LowerUnit(c) ==
    IF c \in UpperAZ \/ c \in CyrUpper THEN c + 32 ELSE c

UpperUnit(c) ==
    IF c \in LowerAZ \/ c \in CyrLower THEN c - 32 ELSE c

toLowerCase(s) == [i \in 1..Len(s) |-> LowerUnit(s[i])]

toUpperCase(s) == [i \in 1..Len(s) |-> UpperUnit(s[i])]

\* s.slice(from), from counted from 0
slice(s, from) == SubSeq(s, from + 1, Len(s))

\* s.charAt(i): the empty string when i is out of range
charAt(s, i) == IF i + 1 \in 1..Len(s) THEN <<s[i + 1]>> ELSE <<>>

\* strip(s, class): s without its leading and trailing units of class
strip(s, class) ==
    LET keep == {i \in 1..Len(s) : s[i] \notin class}
        lo == CHOOSE i \in keep : \A j \in keep : i <= j
        hi == CHOOSE i \in keep : \A j \in keep : i >= j
    IN  IF keep = {} THEN <<>> ELSE SubSeq(s, lo, hi)

trim(s) == strip(s, Whitespace)

\* s.replace(/[class]+/g, r): every maximal run of class units becomes r
ReplaceRuns(s, class, r) ==
    Concat([i \in 1..Len(s) |->
        IF s[i] \notin class THEN <<s[i]>>
        ELSE IF i > 1 /\ s[i - 1] \in class THEN <<>>
        ELSE r])

\* s.replace(/[^keep]+/g, r)
ReplaceOtherRuns(s, keep, r) ==
    Concat([i \in 1..Len(s) |->
        IF s[i] \in keep THEN <<s[i]>>
        ELSE IF i > 1 /\ s[i - 1] \notin keep THEN <<>>
        ELSE r])

\* s.replace(/([A])([B])/g, '$1 $2'): the scan resumes after each match
RECURSIVE InsertBetween(_, _, _)
InsertBetween(s, A, B) ==
    IF Len(s) < 2 THEN s
    ELSE IF s[1] \in A /\ s[2] \in B
         THEN <<s[1], SP, s[2]>> \o InsertBetween(SubSeq(s, 3, Len(s)), A, B)
         ELSE <<s[1]>> \o InsertBetween(Tail(s), A, B)

\* the last index of the maximal run of class units that starts at i (i-1 if none)
RECURSIVE RunEnd(_, _, _)
RunEnd(s, i, class) ==
    IF i <= Len(s) /\ s[i] \in class THEN RunEnd(s, i + 1, class) ELSE i - 1

\* s.replace(/([A-Z]+)([A-Z][a-z0-9]+)/g, '$1 $2'). At a start i the greedy
\* [A-Z]+ takes the whole run i..k and gives back its last unit for [A-Z]; the
\* match needs k > i and a unit of [a-z0-9] after k, and runs to the end m of
\* that run of [a-z0-9].
RECURSIVE SplitAcronym(_)
SplitAcronym(s) ==
    IF s = <<>> THEN <<>>
    ELSE LET k == RunEnd(s, 1, UpperAZ)
             m == RunEnd(s, k + 1, LowerAZ \cup Digits)
         IN  IF k >= 2 /\ m > k
             THEN SubSeq(s, 1, k - 1) \o <<SP>> \o SubSeq(s, k, m)
                      \o SplitAcronym(SubSeq(s, m + 1, Len(s)))
             ELSE <<s[1]>> \o SplitAcronym(Tail(s))

\* s.split(/[class]+/): the pieces between maximal runs of class units
RECURSIVE SplitRuns(_, _)
SplitRuns(s, class) ==
    LET hits == {i \in 1..Len(s) : s[i] \in class}
        i == CHOOSE x \in hits : \A y \in hits : x <= y
    IN  IF hits = {} THEN <<s>>
        ELSE <<SubSeq(s, 1, i - 1)>>
                 \o SplitRuns(SubSeq(s, RunEnd(s, i, class) + 1, Len(s)), class)

\* s.split(c) for a one-unit string c: every occurrence of c separates
RECURSIVE SplitUnit(_, _)
SplitUnit(s, c) ==
    LET hits == {i \in 1..Len(s) : s[i] = c}
        i == CHOOSE x \in hits : \A y \in hits : x <= y
    IN  IF hits = {} THEN <<s>>
        ELSE <<SubSeq(s, 1, i - 1)>> \o SplitUnit(SubSeq(s, i + 1, Len(s)), c)

\* words.filter(Boolean): the empty string is falsy
FilterBoolean(words) == SelectSeq(words, LAMBDA w : w # <<>>)

(***************************************************************************)
(* Values and outcomes                                                     *)
(***************************************************************************)
Str(s) == [type |-> "string", value |-> s]

NonStrings ==
    { [type |-> "null", value |-> 0],
      [type |-> "number", value |-> 123],
      [type |-> "object", value |-> 0] }

Return(s) == [kind |-> "return", value |-> s]

Throw(name, message) ==
    [kind |-> "throw", value |-> [name |-> name, message |-> message]]

NoResult == [kind |-> "none", value |-> 0]

(***************************************************************************)
(* toKebabCase                                                             *)
(***************************************************************************)
\* the normalisation with the acronym step left out
KebabNormalizeNoAcronym(s) ==
    LET s1 == ReplaceRuns(s, {UNDERSCORE, HYPHEN} \cup Whitespace, <<SP>>)
        s2 == InsertBetween(s1, LowerAZ \cup Digits, UpperAZ)
        s4 == InsertBetween(s2, LettersAZ, Digits)
    IN  InsertBetween(s4, Digits, LettersAZ)

KebabNormalize(s) ==
    LET s1 == ReplaceRuns(s, {UNDERSCORE, HYPHEN} \cup Whitespace, <<SP>>)
        s2 == InsertBetween(s1, LowerAZ \cup Digits, UpperAZ)
        s3 == SplitAcronym(s2)
        s4 == InsertBetween(s3, LettersAZ, Digits)
    IN  InsertBetween(s4, Digits, LettersAZ)

KebabStrip(s) ==
    ReplaceOtherRuns(s, UnicodeLetters \cup UnicodeNumbers \cup Whitespace, <<>>)

KebabOfString(s) ==
    IF trim(s) = <<>> THEN <<>>
    ELSE toLowerCase(Join(FilterBoolean(
             SplitRuns(KebabStrip(KebabNormalize(s)), Whitespace)), <<HYPHEN>>))

toKebabCase(in) ==
    IF in.type # "string" THEN Throw("TypeError", "Input must be a string")
    ELSE Return(KebabOfString(in.value))

(***************************************************************************)
(* camelCase and dotCase                                                   *)
(***************************************************************************)
Cleaned(s) ==
    trim(ReplaceOtherRuns(
        ReplaceRuns(s, Whitespace \cup {HYPHEN, UNDERSCORE, DOT}, <<SP>>),
        LettersAZ \cup Digits \cup {SP}, <<>>))

\* the map callback with the first word capitalised like the others
CamelWordPascal(word, idx) ==
    toUpperCase(charAt(word, 0)) \o toLowerCase(slice(word, 1))

\* the map callback with the rest of a later word left as it is
CamelWordKeepRest(word, idx) ==
    IF idx = 0 THEN toLowerCase(word)
    ELSE toUpperCase(charAt(word, 0)) \o slice(word, 1)

\* the callback of words.map in camelCase
CamelWord(word, idx) ==
    IF idx = 0 THEN toLowerCase(word)
    ELSE toUpperCase(charAt(word, 0)) \o toLowerCase(slice(word, 1))

CamelOfString(s) ==
    IF trim(s) = <<>> THEN <<>>
    ELSE LET cleaned == Cleaned(s)
             words == SplitUnit(cleaned, SP)
         IN  IF cleaned = <<>> THEN <<>>
             ELSE Join([i \in 1..Len(words) |-> CamelWord(words[i], i - 1)], <<>>)

\* camelCase without its type check: trim is then called on the argument itself
camelCaseUnchecked(in) ==
    IF in.type = "null"
    THEN Throw("TypeError", "Cannot read properties of null (reading 'trim')")
    ELSE IF in.type # "string"
    THEN Throw("TypeError", "input.trim is not a function")
    ELSE Return(CamelOfString(in.value))

camelCase(in) ==
    IF in.type # "string" THEN Throw("TypeError", "Input must be a string")
    ELSE Return(CamelOfString(in.value))

DotOfString(s) ==
    IF trim(s) = <<>> THEN <<>>
    ELSE LET cleaned == Cleaned(s)
             words == SplitUnit(cleaned, SP)
         IN  IF cleaned = <<>> THEN <<>>
             ELSE Join([i \in 1..Len(words) |-> toLowerCase(words[i])], <<DOT>>)

dotCase(in) ==
    IF in.type # "string" THEN Throw("TypeError", "Input must be a string")
    ELSE Return(DotOfString(in.value))

(***************************************************************************)
(* to_snake_case                                                           *)
(***************************************************************************)
\* re.sub(r'([A-Z]+)', r'_\1', text): an underscore before every maximal run
PrefixUpperRuns(s) ==
    Concat([i \in 1..Len(s) |->
        IF s[i] \in UpperAZ /\ (i = 1 \/ s[i - 1] \notin UpperAZ)
        THEN <<UNDERSCORE, s[i]>> ELSE <<s[i]>>])

\* to_snake_case without the final strip('_')
to_snake_case_unstripped(text) ==
    IF text.type # "string"
    THEN Throw("TypeError", "expected string or bytes-like object")
    ELSE Return(toLowerCase(
             ReplaceRuns(PrefixUpperRuns(text.value),
                         PyWhitespace \cup {HYPHEN}, <<UNDERSCORE>>)))

\* re.sub raises TypeError on an argument that is not a string
to_snake_case(text) ==
    IF text.type # "string"
    THEN Throw("TypeError", "expected string or bytes-like object")
    ELSE Return(strip(toLowerCase(
             ReplaceRuns(PrefixUpperRuns(text.value),
                         PyWhitespace \cup {HYPHEN}, <<UNDERSCORE>>)),
             {UNDERSCORE}))

(***************************************************************************)
(* Inputs                                                                  *)
(***************************************************************************)
\* the inputs of the test table of toKebabCase
kebabTestInputs ==
    { <<104, 101, 108, 108, 111, 87, 111, 114, 108, 100>>,
      <<77, 121, 67, 111, 109, 112, 111, 110, 101, 110, 116, 78, 97, 109, 101>>,
      <<104, 101, 108, 108, 111, 32, 119, 111, 114, 108, 100>>,
      <<117, 115, 101, 114, 95, 110, 97, 109, 101, 95, 102, 105, 101, 108, 100>>,
      <<77, 121, 45, 67, 111, 109, 112, 111, 110, 101, 110, 116, 32, 78, 97, 109, 101>>,
      <<88, 77, 76, 72, 116, 116, 112, 82, 101, 113, 117, 101, 115, 116>>,
      <<105, 116, 101, 109, 49, 50, 51, 78, 97, 109, 101>>,
      <<115, 112, 101, 99, 105, 97, 108, 64, 35, 67, 104, 97, 114, 115, 33>>,
      <<1055, 1088, 1080, 1074, 1077, 1090, 1052, 1080, 1088>>,
      <<>>,
      <<32, 32>>,
      <<70, 79, 79, 66, 97, 114>>,
      <<117, 115, 101, 114, 73, 68, 78, 117, 109, 98, 101, 114>> }

\* the string inputs of the test tables of camelCase and dotCase (the same list)
camelTestInputs ==
    { <<>>,
      <<32>>,
      <<104, 101, 108, 108, 111, 32, 119, 111, 114, 108, 100>>,
      <<72, 101, 108, 108, 111, 45, 87, 111, 114, 108, 100>>,
      <<104, 101, 108, 108, 111, 95, 119, 111, 114, 108, 100>>,
      <<104, 101, 108, 108, 111, 46, 119, 111, 114, 108, 100>>,
      <<104, 101, 108, 108, 111, 45, 45, 119, 111, 114, 108, 100, 95, 95, 116, 101, 115, 116>>,
      <<32, 32, 104, 101, 108, 108, 111, 32, 32, 32, 119, 111, 114, 108, 100, 32, 32>>,
      <<104, 101, 108, 108, 111, 49, 50, 51, 119, 111, 114, 108, 100>>,
      <<49, 50, 51, 104, 101, 108, 108, 111, 32, 119, 111, 114, 108, 100>>,
      <<104, 101, 108, 108, 111, 64, 119, 111, 114, 108, 100, 33>>,
      <<72, 69, 76, 76, 79, 95, 87, 79, 82, 76, 68>>,
      <<102, 111, 111, 45, 98, 97, 114, 95, 98, 97, 122, 46, 113, 117, 120>>,
      <<102, 111, 111, 45, 45, 98, 97, 114, 95, 95, 98, 97, 122, 46, 46, 113, 117, 120>>,
      <<102, 111, 111, 32, 49, 50, 51, 32, 98, 97, 114>>,
      <<102, 111, 111, 36, 37, 94, 98, 97, 114>>,
      <<102, 111, 111>>,
      <<70, 79, 79>>,
      <<102, 111, 111, 66, 97, 114>> }

TestInputs == kebabTestInputs \cup camelTestInputs

\* all strings over units of length at most n
StringsUpTo(units, n) == UNION {[1..k -> units] : k \in 0..n}

\* a, A, 1, the separators, a tab, a special character, Cyrillic Pe in both cases
Alphabet == {97, 65, 49, SP, TAB, HYPHEN, UNDERSCORE, DOT, AT, 1055, 1087}

\* a, z, A, Z
LetterAlphabet == {97, 122, 65, 90}

\* a, A, 1 and the four separators
WordAlphabet == {97, 65, 49, SP, HYPHEN, UNDERSCORE, DOT}

\* a, A, two separators and a special character
SpecialAlphabet == {97, 65, SP, DOT, AT}

(***************************************************************************)
(* The calls                                                               *)
(***************************************************************************)
\* The drawn input is a string over the given units, an input of the test
\* tables, or one of the values that are not strings.
InitWith(units, n) ==
    /\ input \in {Str(s) : s \in StringsUpTo(units, n) \cup TestInputs}
                     \cup NonStrings
    /\ fn = "none"
    /\ result = NoResult
    /\ prev = NoResult
    /\ calls = 0

Init == InitWith(Alphabet, MaxLen)
InitLetters == InitWith(LetterAlphabet, MaxLettersLen)
InitWords == InitWith(WordAlphabet, MaxWordsLen)
InitSpecial == InitWith(SpecialAlphabet, MaxSpecialLen)

\* The first call takes the drawn input; a later call of the same function
\* takes the string the call before it returned.
CanCall(name) ==
    /\ calls < MaxCalls
    /\ calls > 0 => fn = name /\ result.kind = "return"

Argument == IF calls = 0 THEN input ELSE Str(result.value)

CallToKebabCase ==
    /\ CanCall("toKebabCase")
    /\ input' = Argument
    /\ result' = toKebabCase(input')
    /\ prev' = result
    /\ fn' = "toKebabCase"
    /\ calls' = calls + 1

CallCamelCase ==
    /\ CanCall("camelCase")
    /\ input' = Argument
    /\ result' = camelCase(input')
    /\ prev' = result
    /\ fn' = "camelCase"
    /\ calls' = calls + 1

CallDotCase ==
    /\ CanCall("dotCase")
    /\ input' = Argument
    /\ result' = dotCase(input')
    /\ prev' = result
    /\ fn' = "dotCase"
    /\ calls' = calls + 1

CallToSnakeCase ==
    /\ CanCall("to_snake_case")
    /\ input' = Argument
    /\ result' = to_snake_case(input')
    /\ prev' = result
    /\ fn' = "to_snake_case"
    /\ calls' = calls + 1

Next ==
    \/ CallToKebabCase
    \/ CallCamelCase
    \/ CallDotCase
    \/ CallToSnakeCase

Spec == Init /\ [][Next]_vars
SpecLetters == InitLetters /\ [][Next]_vars
SpecWords == InitWords /\ [][Next]_vars
SpecSpecial == InitSpecial /\ [][Next]_vars


(***************************************************************************)
(* Vocabulary of the properties                                            *)
(***************************************************************************)
Separators == {SP, HYPHEN, UNDERSCORE, DOT}
Alnum == LettersAZ \cup Digits
\* neither a letter, a digit nor a separator
IsSpecial(c) ==
    c \notin UnicodeLetters \cup UnicodeNumbers \cup Whitespace \cup Separators

IsString == input.type = "string"
AllIn(s, class) == \A i \in 1..Len(s) : s[i] \in class
Returned(name) == fn = name /\ result.kind = "return"

\* the function last called, applied to a string
Applied(s) ==
    CASE fn = "toKebabCase" -> toKebabCase(Str(s))
      [] fn = "camelCase" -> camelCase(Str(s))
      [] fn = "dotCase" -> dotCase(Str(s))
      [] OTHER -> to_snake_case(Str(s))

(***************************************************************************)
(* C1: called with an argument that is not a string (null, a number, an    *)
(* object), each of toKebabCase, camelCase and dotCase throws a TypeError  *)
(* with the message "Input must be a string" and returns nothing.          *)
(***************************************************************************)
C1_NonStringThrowsTypeError ==
    (fn \in {"toKebabCase", "camelCase", "dotCase"} /\ ~IsString)
        => result = Throw("TypeError", "Input must be a string")

C1_Witness ==
    /\ fn = "camelCase"
    /\ input.type = "number"
    /\ result.kind = "throw"

(***************************************************************************)
(* C2: for a string that is empty or made of whitespace only, each of the  *)
(* four conversion functions returns the empty string. Whitespace is what  *)
(* the function's language calls whitespace: \s and trim of JavaScript for *)
(* the three JavaScript functions, \s of Python's re for to_snake_case.    *)
(***************************************************************************)
C2_BlankGivesEmpty ==
    /\ (fn \in {"toKebabCase", "camelCase", "dotCase"} /\ IsString
            /\ AllIn(input.value, Whitespace))
           => result = Return(<<>>)
    /\ (fn = "to_snake_case" /\ IsString /\ AllIn(input.value, PyWhitespace))
           => result = Return(<<>>)

C2_Witness ==
    /\ fn = "to_snake_case"
    /\ input = Str(<<SP, TAB>>)
    /\ result = Return(<<>>)

(***************************************************************************)
(* C3: toKebabCase is idempotent: applied to its own result it returns     *)
(* that result again.                                                      *)
(***************************************************************************)
C3_KebabIdempotent ==
    (Returned("toKebabCase") /\ calls >= 2) => result = prev

SpecialsToSpaces(s) == [i \in 1..Len(s) |-> IF IsSpecial(s[i]) THEN SP ELSE s[i]]

HasSpecialRunBetweenAlnum(s) ==
    \E i, j \in 1..Len(s) :
        /\ 1 < i /\ i <= j /\ j < Len(s)
        /\ \A k \in i..j : IsSpecial(s[k])
        /\ s[i - 1] \in Alnum
        /\ s[j + 1] \in Alnum

C5_SpecialRunIsBoundary ==
    (fn \in {"toKebabCase", "camelCase", "dotCase"} /\ calls = 1 /\ IsString
         /\ HasSpecialRunBetweenAlnum(input.value))
        => result = Applied(SpecialsToSpaces(input.value))

(***************************************************************************)
(* C6: toKebabCase keeps a run of digits attached to the lowercase letters *)
(* before it: for lowercase letters, then digits, then a capitalised word  *)
(* (as in "item123Name") the only hyphen is the one before the uppercase   *)
(* letter.                                                                 *)
(***************************************************************************)
\* the index of the uppercase letter of lower+ digit+ Upper lower*, 0 if s has
\* another shape
CapitalAfterDigits(s) ==
    LET k == RunEnd(s, 1, LowerAZ)
        m == RunEnd(s, k + 1, Digits)
    IN  IF /\ k >= 1 /\ m > k /\ m < Len(s)
           /\ s[m + 1] \in UpperAZ
           /\ RunEnd(s, m + 2, LowerAZ) = Len(s)
        THEN m + 1 ELSE 0

C6_DigitsStayAttached ==
    (fn = "toKebabCase" /\ IsString /\ CapitalAfterDigits(input.value) > 0)
        => LET j == CapitalAfterDigits(input.value)
           IN  result = Return(toLowerCase(SubSeq(input.value, 1, j - 1))
                               \o <<HYPHEN>>
                               \o toLowerCase(SubSeq(input.value, j, Len(input.value))))

(***************************************************************************)
(* C7: for a non-empty string of ASCII letters toKebabCase returns the     *)
(* input lowercased with a hyphen exactly (1) between a lowercase letter   *)
(* and an uppercase letter that follows it and (2) between two uppercase   *)
(* letters when the second one is followed by a lowercase letter.          *)
(***************************************************************************)
HyphenBefore(s, i) ==
    /\ i > 1
    /\ \/ s[i - 1] \in LowerAZ /\ s[i] \in UpperAZ
       \/ /\ s[i - 1] \in UpperAZ /\ s[i] \in UpperAZ
          /\ i < Len(s) /\ s[i + 1] \in LowerAZ

KebabOfLetters(s) ==
    Concat([i \in 1..Len(s) |->
        IF HyphenBefore(s, i) THEN <<HYPHEN, LowerUnit(s[i])>>
        ELSE <<LowerUnit(s[i])>>])

C7_LettersSplitAtCaseBoundaries ==
    (fn = "toKebabCase" /\ IsString /\ input.value # <<>>
         /\ AllIn(input.value, LettersAZ))
        => result = Return(KebabOfLetters(input.value))

\* "XMLHttpRequest" gives "xml-http-request"
C7_Witness ==
    /\ fn = "toKebabCase"
    /\ input = Str(<<88, 77, 76, 72, 116, 116, 112, 82, 101, 113, 117, 101, 115, 116>>)
    /\ result = Return(<<120, 109, 108, 45, 104, 116, 116, 112, 45,
                         114, 101, 113, 117, 101, 115, 116>>)

(***************************************************************************)
(* C8: toKebabCase splits letters outside ASCII at a lowercase-to-uppercase *)
(* boundary as it does ASCII letters: for a string of Cyrillic letters the *)
(* result is the input lowercased with a hyphen between a lowercase letter *)
(* and an uppercase letter that follows it ("ПриветМир" gives              *)
(* "привет-мир"). Strings with two adjacent uppercase letters are left to  *)
(* the acronym rule and not covered.                                       *)
(***************************************************************************)
KebabOfCyrillic(s) ==
    Concat([i \in 1..Len(s) |->
        IF i > 1 /\ s[i - 1] \in CyrLower /\ s[i] \in CyrUpper
        THEN <<HYPHEN, LowerUnit(s[i])>>
        ELSE <<LowerUnit(s[i])>>])

C8_UnicodeCaseBoundary ==
    (fn = "toKebabCase" /\ IsString /\ input.value # <<>>
         /\ AllIn(input.value, CyrLower \cup CyrUpper)
         /\ \A i \in 2..Len(input.value) :
                ~(input.value[i - 1] \in CyrUpper /\ input.value[i] \in CyrUpper))
        => result = Return(KebabOfCyrillic(input.value))

(***************************************************************************)
(* C9: for a string of words of ASCII letters and digits separated by runs *)
(* of separators (space, hyphen, underscore, dot), with or without leading *)
(* and trailing separators, camelCase returns the first word lowercased    *)
(* followed by each later word with its first character uppercased and the *)
(* rest lowercased; a run of separators is one boundary and a word is not  *)
(* split at its case changes.                                              *)
(***************************************************************************)
CamelOfWords(s) ==
    Concat([i \in 1..Len(s) |->
        IF s[i] \notin Alnum THEN <<>>
        ELSE IF /\ i > 1 /\ s[i - 1] \notin Alnum
                /\ \E j \in 1..(i - 1) : s[j] \in Alnum
             THEN <<UpperUnit(s[i])>>
             ELSE <<LowerUnit(s[i])>>])

C9_CamelOfSeparatedWords ==
    (fn = "camelCase" /\ IsString
         /\ AllIn(input.value, Alnum \cup Separators)
         /\ \E i \in 1..Len(input.value) : input.value[i] \in Alnum)
        => result = Return(CamelOfWords(input.value))

\* "foo--bar__baz..qux" gives "fooBarBazQux"
C9_Witness ==
    /\ fn = "camelCase"
    /\ input = Str(<<102, 111, 111, 45, 45, 98, 97, 114, 95, 95,
                     98, 97, 122, 46, 46, 113, 117, 120>>)
    /\ result = Return(<<102, 111, 111, 66, 97, 114, 66, 97, 122, 81, 117, 120>>)

(***************************************************************************)
(* C10: the result of dotCase never starts with a dot, never ends with a   *)
(* dot and never holds two dots in a row.                                  *)
(***************************************************************************)
C10_NoEmptyToken ==
    Returned("dotCase")
        => LET r == result.value
           IN  /\ r # <<>> => r[1] # DOT /\ r[Len(r)] # DOT
               /\ \A i \in 2..Len(r) : ~(r[i - 1] = DOT /\ r[i] = DOT)

=============================================================================
